---- MODULE Spec2Model ----
(***************************************************************************)
(* A model of the FreeSWITCH Prometheus exporter's event-socket client     *)
(* (esl.py) and scrape orchestration (collector.py).                       *)
(*                                                                         *)
(* Five specifications share the module:                                   *)
(*   Spec         one scrape (ChannelCollector._collect) against a peer    *)
(*                that answers every read with an arbitrary response;      *)
(*   LiveSpec     Spec with weak fairness on the scrape's step: the peer   *)
(*                answers every read with a frame or end of stream;        *)
(*   PairSpec     two scrapes interleaved at every suspension point;       *)
(*   FrameSpec    the framing algorithm (ESL._read_headers and             *)
(*                ESL._read_body) run byte by byte over a stream of        *)
(*                encoded frames, cut at any byte;                         *)
(*   BadLineSpec  the same reads over a stream whose last frame has a      *)
(*                header line without a colon.                             *)
(***************************************************************************)
EXTENDS Integers, Sequences, FiniteSets, TLC

VARIABLES
    pc,         \* position of the scrape coroutine
    io,         \* step of the ESL operation in progress: write, drain, read
    conn,       \* the socket: "none", "open", "closed"
    closes,     \* number of writer.close() calls
    written,    \* commands written to the socket, in order
    drained,    \* number of written commands whose drain() has returned
    framesRead, \* number of complete frames read from the socket
    resp,       \* the last response the peer put on the stream
    reply,      \* what the last ESL.send returned to its caller
    loginResult,\* return value of ESL.login: "none", "true", "false"
    rows,       \* rows of the active-call listing being iterated
    rowIdx,     \* index of the row being processed
    dumps,      \* the uuid_dump bodies ESL.send returned, one per row
    process,    \* metric families returned by ESLProcessInfo.collect
    channel_metrics,      \* catalog key -> samples added so far
    channel_info_metric,  \* samples of rtp_channel_info
    profiles,   \* profile names being iterated by the sofia collector
    profIdx,    \* index of the profile being processed
    fields,     \* sofia field -> samples added so far
    gauges,     \* the sofia collector's `gauges` list (field names)
    result,     \* what _collect returned: NoResult or a sequence of families
    error,      \* the exception _collect raised, or "none"
    stream,     \* FrameSpec: the bytes of the input stream
    cursor,     \* FrameSpec: index of the next unread byte (1-based)
    frames,     \* FrameSpec: the frames that were encoded into the stream
    got,        \* FrameSpec: outcomes of the reads so far
    cuts,       \* FrameSpec: whether the stream was truncated
    parked      \* PairSpec: the locals of the scrape that is not running

vars == <<pc, io, conn, closes, written, drained, framesRead, resp, reply,
          loginResult, rows, rowIdx, dumps, process, channel_metrics,
          channel_info_metric, profiles, profIdx, fields, gauges, result,
          error, stream, cursor, frames, got, cuts, parked>>

scrapeVars == <<pc, io, conn, closes, written, drained, framesRead, resp,
                reply, loginResult, rows, rowIdx, dumps, process, channel_metrics,
                channel_info_metric, profiles, profIdx, fields, gauges,
                result, error>>

frameVars == <<stream, cursor, frames, got, cuts>>

\* what one call of _collect holds: its position, its connection and ESL
\* object, and the families its sub-collectors build
Locals ==
    [pc |-> pc, io |-> io, conn |-> conn, closes |-> closes,
     written |-> written, drained |-> drained, framesRead |-> framesRead,
     resp |-> resp, reply |-> reply, loginResult |-> loginResult,
     rows |-> rows, rowIdx |-> rowIdx, dumps |-> dumps, process |-> process,
     channel_metrics |-> channel_metrics,
     channel_info_metric |-> channel_info_metric, profiles |-> profiles,
     profIdx |-> profIdx, fields |-> fields, gauges |-> gauges,
     result |-> result, error |-> error]

----------------------------------------------------------------------------
(* Python values *)

\* {} : the empty dict
EmptyDict == [k \in {} |-> 0]

\* dict.get(k, default)
Get(d, k, default) == IF k \in DOMAIN d THEN d[k] ELSE default

\* the whole string compared where the prefix was meant
StartsWithWhole(s, prefix) == s = prefix

\* str.startswith on sequences of characters
StartsWith(s, prefix) ==
    /\ Len(s) >= Len(prefix)
    /\ SubSeq(s, 1, Len(prefix)) = prefix

----------------------------------------------------------------------------
(* Bounds of the model *)

\* longest active-call listing the peer answers with
MaxRows == 2
\* longest profile listing the peer answers with
MaxProfiles == 2

----------------------------------------------------------------------------
(* What the peer can put on the stream in answer to one read.              *)
(* A response is described by what the framing code makes of it:           *)
(*   hdr      "ok"      a header block ended by a blank line               *)
(*            "eof"     the stream ends inside the header block            *)
(*            "badline" a terminated line without a colon comes first      *)
(*   headers  the name -> value pairs of the header block                  *)
(*   short    the stream ends before Content-Length body bytes arrived     *)
(*   body     the body bytes, described by their leading characters and    *)
(*            by what the parser applied to them yields                    *)

Absent == "(absent)"
\* what a parser yields for a text it cannot parse
Invalid == [invalid |-> TRUE]
Malformed == [malformed |-> TRUE]

ContentTypes == {"auth/request", "command/reply", "api/response",
                 "text/rude-rejection", "text/disconnect-notice"}

ReplyTexts == {"+OK accepted", "-ERR invalid"}

ErrPrefix == <<"-", "E", "R", "R", " ">>

Text(chars) == [kind |-> "text", lead |-> chars, val |-> Invalid]
Json(obj) == [kind |-> "json", lead |-> <<"{">>, val |-> obj]
Listing(names) == [kind |-> "listing", lead |-> <<"=">>, val |-> names]
Status(rec) == [kind |-> "status", lead |-> <<"=">>, val |-> rec]

EmptyBody == Text(<<>>)
ErrBody == Text(ErrPrefix \o <<"n", "o">>)
GarbageBody == Text(<<"-", "E", "R", "R">>)

Headers(ct, rt, hasLength) ==
    (IF ct = Absent THEN EmptyDict ELSE "Content-Type" :> ct)
    @@ (IF rt = Absent THEN EmptyDict ELSE "Reply-Text" :> rt)
    @@ (IF hasLength THEN "Content-Length" :> "n" ELSE EmptyDict)

Frame(ct, rt, body) ==
    [hdr |-> "ok", headers |-> Headers(ct, rt, body # EmptyBody),
     short |-> FALSE, body |-> body]

Truncated ==
    { [hdr |-> "eof", headers |-> EmptyDict, short |-> FALSE,
       body |-> EmptyBody],
      [hdr |-> "badline", headers |-> EmptyDict, short |-> FALSE,
       body |-> EmptyBody] }
    \cup { [hdr |-> "ok", headers |-> Headers(ct, Absent, TRUE),
            short |-> TRUE, body |-> EmptyBody] :
           ct \in {"auth/request", "command/reply", "api/response"} }

\* before the first read
NoResponse ==
    [hdr |-> "none", headers |-> EmptyDict, short |-> FALSE, body |-> EmptyBody]

PeerResponses(bodies) ==
    { Frame(ct, Absent, b) : ct \in ContentTypes \cup {Absent},
                             b \in bodies \cup {EmptyBody} }
    \cup { Frame("command/reply", rt, EmptyBody) : rt \in ReplyTexts }
    \cup Truncated

----------------------------------------------------------------------------
(* esl.py : the protocol client, one read at a time *)

NoFrame(e) == [err |-> e, headers |-> EmptyDict, body |-> EmptyBody]

\* ESL._read_headers on the response r
ReadHeaders(r) ==
    IF r.hdr = "eof" THEN NoFrame("ESLHeaderError")
    ELSE IF r.hdr = "badline" THEN NoFrame("ValueError")
    ELSE [err |-> "none", headers |-> r.headers, body |-> EmptyBody]

\* ESL._read_body on the response r, given the headers read
ReadBody(r, headers) ==
    IF "Content-Length" \in DOMAIN headers
    THEN IF r.short THEN NoFrame("IncompleteReadError")
         ELSE [err |-> "none", headers |-> headers, body |-> r.body]
    ELSE [err |-> "none", headers |-> headers, body |-> EmptyBody]

\* _read_headers followed by _read_body
ReadFrame(r) ==
    LET h == ReadHeaders(r)
    IN IF h.err # "none" THEN h ELSE ReadBody(r, h.headers)

\* ESL.initialize: the error raised, or "none"
Initialize(r) ==
    LET f == ReadFrame(r)
    IN IF f.err # "none" THEN f.err
       ELSE IF "Content-Type" \notin DOMAIN f.headers THEN "KeyError"
       ELSE IF f.headers["Content-Type"] = "auth/request" THEN "none"
       ELSE "ESLProtocolError"

\* login that takes a command/reply with another Reply-Text for a failed
\* login and returns false
LoginRefusalIsFalse(r) ==
    LET f == ReadFrame(r)
        h == f.headers
    IN IF f.err # "none" THEN [err |-> f.err, result |-> "none"]
       ELSE IF "Content-Type" \notin DOMAIN h
       THEN [err |-> "KeyError", result |-> "none"]
       ELSE IF h["Content-Type"] = "command/reply"
       THEN IF "Reply-Text" \notin DOMAIN h
            THEN [err |-> "KeyError", result |-> "none"]
            ELSE IF h["Reply-Text"] = "+OK accepted"
            THEN [err |-> "none", result |-> "true"]
            ELSE [err |-> "none", result |-> "false"]
       ELSE IF h["Content-Type"] = "text/rude-rejection"
       THEN [err |-> "none", result |-> "false"]
       ELSE [err |-> "ESLProtocolError", result |-> "none"]

\* ESL.login after the write: the error raised and the value returned
Login(r) ==
    LET f == ReadFrame(r)
        h == f.headers
    IN IF f.err # "none" THEN [err |-> f.err, result |-> "none"]
       ELSE IF "Content-Type" \notin DOMAIN h
       THEN [err |-> "KeyError", result |-> "none"]
       ELSE IF h["Content-Type"] = "command/reply"
       THEN IF "Reply-Text" \notin DOMAIN h
            THEN [err |-> "KeyError", result |-> "none"]
            ELSE IF h["Reply-Text"] = "+OK accepted"
            THEN [err |-> "none", result |-> "true"]
            ELSE [err |-> "ESLProtocolError", result |-> "none"]
       ELSE IF h["Content-Type"] = "text/rude-rejection"
       THEN [err |-> "none", result |-> "false"]
       ELSE [err |-> "ESLProtocolError", result |-> "none"]

\* send without the check of the content type
SendUnchecked(r) ==
    LET f == ReadFrame(r)
    IN IF f.err # "none" THEN f
       ELSE IF "Content-Type" \notin DOMAIN f.headers THEN NoFrame("KeyError")
       ELSE f

\* ESL.send after the write: the error raised, or the (headers, body) returned
Send(r) ==
    LET f == ReadFrame(r)
    IN IF f.err # "none" THEN f
       ELSE IF "Content-Type" \notin DOMAIN f.headers THEN NoFrame("KeyError")
       ELSE IF f.headers["Content-Type"] # "api/response"
       THEN NoFrame("ESLProtocolError")
       ELSE f

\* json.loads
JsonLoads(body) ==
    IF body.kind = "json" THEN [ok |-> TRUE, val |-> body.val]
    ELSE [ok |-> FALSE, val |-> Invalid]


----------------------------------------------------------------------------
(* collector.py : metric families *)

Sample(labels, value) == [labels |-> labels, value |-> value]
Family(name, samples) == [name |-> name, samples |-> samples]

RECURSIVE GCD(_, _)
GCD(a, b) == IF b = 0 THEN a ELSE GCD(b, a % b)

\* float(n) / d as an exact fraction in lowest terms
Ratio(n, d) == LET g == GCD(n, d) IN [num |-> n \div g, den |-> d \div g]

\* ESLProcessInfo.collect after the send: the families built from `response`
ProcessFamilies(response) ==
    LET info == Family("freeswitch_info",
            IF "version" \in DOMAIN response
            THEN <<Sample(<<response["version"]>>, 1)>> ELSE <<>>)
        up == Family("freeswitch_up",
            IF "systemStatus" \in DOMAIN response
            THEN <<Sample(<<>>,
                     IF response["systemStatus"] = "ready" THEN 1 ELSE 0)>>
            ELSE <<>>)
        memory == Family("freeswitch_stack_bytes",
            IF "stackSizeKB" \in DOMAIN response
            THEN <<Sample(<<>>,
                     Get(response["stackSizeKB"], "current", 0) * 1024)>>
            ELSE <<>>)
        session(metric) ==
            CASE metric = "total" -> Family("freeswitch_session_total",
                    <<Sample(<<>>, Get(Get(response["sessions"], "count",
                                           EmptyDict), "total", 0))>>)
              [] metric = "active" -> Family("freeswitch_session_active",
                    <<Sample(<<>>, Get(Get(response["sessions"], "count",
                                           EmptyDict), "active", 0))>>)
              [] metric = "limit" -> Family("freeswitch_session_limit",
                    <<Sample(<<>>, Get(Get(response["sessions"], "count",
                                           EmptyDict), "limit", 0))>>)
        sessions ==
            IF "sessions" \in DOMAIN response
            THEN <<session("total"), session("active"), session("limit")>>
            ELSE <<>>
    IN <<info, up, memory>> \o sessions

\* the keys of ESLChannelInfo.collect's channel_metrics, in dict order
ChannelKeys == <<
    "variable_rtp_audio_in_raw_bytes",
    "variable_rtp_audio_out_raw_bytes",
    "variable_rtp_audio_in_media_bytes",
    "variable_rtp_audio_out_media_bytes",
    "variable_rtp_audio_in_packet_count",
    "variable_rtp_audio_out_packet_count",
    "variable_rtp_audio_in_media_packet_count",
    "variable_rtp_audio_out_media_packet_count",
    "variable_rtp_audio_in_skip_packet_count",
    "variable_rtp_audio_out_skip_packet_count",
    "variable_rtp_audio_in_jitter_packet_count",
    "variable_rtp_audio_in_dtmf_packet_count",
    "variable_rtp_audio_out_dtmf_packet_count",
    "variable_rtp_audio_in_cng_packet_count",
    "variable_rtp_audio_out_cng_packet_count",
    "variable_rtp_audio_in_flush_packet_count",
    "variable_rtp_audio_in_largest_jb_size",
    "variable_rtp_audio_in_jitter_min_variance",
    "variable_rtp_audio_in_jitter_max_variance",
    "variable_rtp_audio_in_jitter_loss_rate",
    "variable_rtp_audio_in_jitter_burst_rate",
    "variable_rtp_audio_in_mean_interval",
    "variable_rtp_audio_in_flaw_total",
    "variable_rtp_audio_in_quality_percentage",
    "variable_rtp_audio_in_mos",
    "variable_rtp_audio_rtcp_octet_count",
    "variable_rtp_audio_rtcp_packet_count" >>

Range(seq) == { seq[i] : i \in DOMAIN seq }

millisecond_metrics == {
    "variable_rtp_audio_in_jitter_min_variance",
    "variable_rtp_audio_in_jitter_max_variance",
    "variable_rtp_audio_in_mean_interval" }

\* the add_metric calls with the millisecond variables divided by 100
AddChannelVarsPerHundred(cm, uuid, channel_vars) ==
    [key \in DOMAIN cm |->
        IF key \in DOMAIN channel_vars
        THEN Append(cm[key],
                 Sample(<<uuid>>,
                     IF key \in millisecond_metrics
                     THEN Ratio(channel_vars[key], 100)
                     ELSE channel_vars[key]))
        ELSE cm[key]]

\* lines 247-252: the add_metric calls for one channel's dumped variables
AddChannelVars(cm, uuid, channel_vars) ==
    [key \in DOMAIN cm |->
        IF key \in DOMAIN channel_vars
        THEN Append(cm[key],
                 Sample(<<uuid>>,
                     IF key \in millisecond_metrics
                     THEN Ratio(channel_vars[key], 1000)
                     ELSE channel_vars[key]))
        ELSE cm[key]]

\* lines 254-257: the rtp_channel_info sample of one channel
ChannelInfoSample(row, channel_vars) ==
    Sample(<<row["uuid"], row["name"],
             Get(channel_vars, "variable_sip_user_agent", "Unknown")>>, 1)

\* lines 259-261: channel_metrics.values() chained with [channel_info_metric]
ChannelFamilies(cm, info) ==
    [i \in 1..Len(ChannelKeys) |-> Family(ChannelKeys[i], cm[ChannelKeys[i]])]
    \o <<Family("rtp_channel_info", info)>>

\* the keys of sofia_profile_status_fields, in dict order
SofiaFields == << "congestion", "session_to", "max_dialog", "calls_in",
                  "failed_calls_in", "calls_out", "failed_calls_out",
                  "registrations" >>

\* lines 320-321: gauge.add_metric for every field of one profile's status
AddProfileStatus(fs, status) ==
    [name \in DOMAIN fs |->
        Append(fs[name], Sample(<<status["name"]>>, status[name]))]

\* lines 320-322: gauges.append(gauge) for every field
AppendGauges(gs) == gs \o SofiaFields

\* the list `gauges` as the caller sees it: every entry is the family object
SofiaFamilies(gs, fs) == [i \in 1..Len(gs) |-> Family(gs[i], fs[gs[i]])]

\* sofia_status.py (not in src/): text in, structured records out
profile_list_from_sofia_status(body) ==
    IF body.kind = "listing" THEN [ok |-> TRUE, val |-> body.val]
    ELSE [ok |-> FALSE, val |-> Malformed]

SofiaProfileStatus(body) ==
    IF body.kind = "status" THEN [ok |-> TRUE, val |-> body.val]
    ELSE [ok |-> FALSE, val |-> Malformed]


----------------------------------------------------------------------------
(* The bodies the peer answers with *)

Uuids == <<"uuid-1", "uuid-2", "uuid-3", "uuid-4">>
Names == <<"sofia/internal/1001", "sofia/internal/1002",
           "sofia/external/1003", "sofia/external/1004">>
ProfileNames == <<"internal", "external", "internal-ipv6", "external-ipv6">>

\* one row of the listing; a defective row lacks its uuid or its name
Row(i, kind) ==
    CASE kind = "full" -> [uuid |-> Uuids[i], name |-> Names[i]]
      [] kind = "nouuid" -> [name |-> Names[i]]
      [] kind = "noname" -> [uuid |-> Uuids[i]]

\* listings of at most MaxRows rows, at most one of them defective
RowLists ==
    { [i \in 1..n |-> Row(i, IF i = d THEN k ELSE "full")] :
        n \in 0..MaxRows, d \in 0..MaxRows, k \in {"nouuid", "noname"} }

StatusFull ==
    [response |-> [version |-> "1.10.9", systemStatus |-> "ready",
                   stackSizeKB |-> [current |-> 240, max |-> 8192],
                   sessions |-> [count |-> [total |-> 7, active |-> 1,
                                            limit |-> 1000]]]]
StatusPartial ==
    [response |-> [systemStatus |-> "paused", stackSizeKB |-> EmptyDict,
                   sessions |-> EmptyDict]]
StatusNoResponse == EmptyDict
StatusEmptyResponse == [response |-> EmptyDict]

StatusBodies ==
    { Json(StatusFull), Json(StatusPartial), Json(StatusNoResponse),
      Json(StatusEmptyResponse), GarbageBody }

CallsBodies ==
    { Json([rows |-> l]) : l \in RowLists } \cup { Json(EmptyDict), GarbageBody }

StatsBodies == { ErrBody, Text(<<"+", "O", "K">>) }

DumpFull ==
    ("variable_rtp_audio_in_mean_interval" :> 1500)
    @@ ("variable_rtp_audio_in_jitter_max_variance" :> 20)
    @@ ("variable_rtp_audio_in_raw_bytes" :> 1500)
    @@ ("variable_rtp_audio_in_mos" :> 4)
    @@ ("variable_sip_user_agent" :> "phone")
    @@ ("variable_read_codec" :> "PCMU")

DumpBodies == { ErrBody, GarbageBody, Json(EmptyDict), Json(DumpFull) }

ListingBodies ==
    { Listing([i \in 1..n |-> ProfileNames[i]]) : n \in 0..MaxProfiles }
    \cup { GarbageBody }

StatusRecord(name) ==
    [name |-> name, congestion |-> 0, session_to |-> 1, max_dialog |-> 100,
     calls_in |-> 5, failed_calls_in |-> 2, calls_out |-> 3,
     failed_calls_out |-> 1, registrations |-> 4]

ProfileBodies(name) == { Status(StatusRecord(name)), GarbageBody }

----------------------------------------------------------------------------
(* collector.py : ChannelCollector._collect, one step per suspension point *)

NoResult == <<"(nothing)">>

Password == "ClueCon"

dataVars == <<loginResult, rows, rowIdx, dumps, process, channel_metrics,
              channel_info_metric, profiles, profIdx, fields, gauges>>

Init ==
    /\ pc = "open"
    /\ io = "idle"
    /\ conn = "none"
    /\ closes = 0
    /\ written = <<>>
    /\ drained = 0
    /\ framesRead = 0
    /\ resp = NoResponse
    /\ reply = NoFrame("none")
    /\ loginResult = "none"
    /\ rows = <<>>
    /\ rowIdx = 0
    /\ dumps = <<>>
    /\ process = <<>>
    /\ channel_metrics = [key \in Range(ChannelKeys) |-> <<>>]
    /\ channel_info_metric = <<>>
    /\ profiles = <<>>
    /\ profIdx = 0
    /\ fields = [name \in Range(SofiaFields) |-> <<>>]
    /\ gauges = <<>>
    /\ result = NoResult
    /\ error = "none"
    /\ stream = <<>>
    /\ cursor = 1
    /\ frames = <<>>
    /\ got = <<>>
    /\ cuts = FALSE
    /\ parked = Locals

\* the next suspension point is the write of the operation at p
Goto(p) ==
    /\ pc' = p
    /\ io' = "write"
    /\ UNCHANGED <<conn, closes, result, error>>

\* an exception that leaves _collect without the `finally` block
RaiseUnclosed(e) ==
    /\ pc' = "done"
    /\ io' = "idle"
    /\ result' = NoResult
    /\ error' = e
    /\ UNCHANGED <<conn, closes>>

\* an exception swallowed, the families gathered so far returned instead
RaisePartial(e) ==
    /\ pc' = "done"
    /\ io' = "idle"
    /\ conn' = "closed"
    /\ closes' = closes + 1
    /\ result' = process
    /\ error' = e

\* an exception leaves _collect through `finally: writer.close()`
Raise(e) ==
    /\ pc' = "done"
    /\ io' = "idle"
    /\ conn' = "closed"
    /\ closes' = closes + 1
    /\ result' = NoResult
    /\ error' = e

\* `return itertools.chain(...)` leaves through `finally: writer.close()`
Return(families) ==
    /\ pc' = "done"
    /\ io' = "idle"
    /\ conn' = "closed"
    /\ closes' = closes + 1
    /\ result' = families
    /\ error' = "none"

\* asyncio.open_connection
Connect ==
    /\ pc = "open"
    /\ \/ /\ conn' = "open"
          /\ pc' = "initialize"
          /\ io' = "read"
          /\ UNCHANGED error
       \/ /\ error' = "OSError"
          /\ pc' = "done"
          /\ UNCHANGED <<conn, io>>
    /\ UNCHANGED <<closes, result, written, drained, framesRead, resp, reply>>
    /\ UNCHANGED dataVars
    /\ UNCHANGED <<frameVars, parked>>

\* the command lines with the dump written before the refresh
CommandDumpFirst ==
    CASE pc = "login" -> <<"auth", Password>>
      [] pc = "process" ->
            <<"api json {\"command\" : \"status\", \"data\" : \"\"}">>
      [] pc = "calls" -> <<"api show calls as json">>
      [] pc = "stats" -> <<"api uuid_dump", rows[rowIdx]["uuid"], "json">>
      [] pc = "dump" -> <<"api uuid_set_media_stats", rows[rowIdx]["uuid"]>>
      [] pc = "sofia" -> <<"api sofia status">>
      [] pc = "profile" -> <<"api sofia status profile", profiles[profIdx]>>

\* the command line the operation at pc writes
Command ==
    CASE pc = "login" -> <<"auth", Password>>
      [] pc = "process" ->
            <<"api json {\"command\" : \"status\", \"data\" : \"\"}">>
      [] pc = "calls" -> <<"api show calls as json">>
      [] pc = "stats" -> <<"api uuid_set_media_stats", rows[rowIdx]["uuid"]>>
      [] pc = "dump" -> <<"api uuid_dump", rows[rowIdx]["uuid"], "json">>
      [] pc = "sofia" -> <<"api sofia status">>
      [] pc = "profile" -> <<"api sofia status profile", profiles[profIdx]>>

\* ESL._write: self._out.write(...)
Write ==
    /\ io = "write"
    /\ written' = Append(written, Command)
    /\ io' = "drain"
    /\ UNCHANGED <<pc, conn, closes, result, error, drained, framesRead, resp,
                   reply>>
    /\ UNCHANGED dataVars
    /\ UNCHANGED <<frameVars, parked>>

\* _write that returns without awaiting drain()
DrainNotAwaited ==
    /\ io = "drain"
    /\ io' = "read"
    /\ UNCHANGED <<pc, conn, closes, result, error, drained>>
    /\ UNCHANGED <<written, framesRead, resp, reply>>
    /\ UNCHANGED dataVars
    /\ UNCHANGED <<frameVars, parked>>

\* ESL._write: await self._out.drain(), which fails when the connection is lost
Drain ==
    /\ io = "drain"
    /\ \/ /\ drained' = drained + 1
          /\ io' = "read"
          /\ UNCHANGED <<pc, conn, closes, result, error>>
       \/ /\ Raise("ConnectionResetError")
          /\ UNCHANGED drained
    /\ UNCHANGED <<written, framesRead, resp, reply>>
    /\ UNCHANGED dataVars
    /\ UNCHANGED <<frameVars, parked>>

\* the peer's response r is consumed by the read of the operation in
\* progress, which hands `returned` to its caller
Consume(r, returned) ==
    /\ resp' = r
    /\ reply' = returned
    /\ framesRead' = framesRead + (IF ReadFrame(r).err = "none" THEN 1 ELSE 0)
    /\ UNCHANGED <<written, drained>>
    /\ UNCHANGED <<frameVars, parked>>

\* line 350: await esl.initialize()
InitializeRead ==
    /\ pc = "initialize" /\ io = "read"
    /\ \E r \in PeerResponses({}) :
        /\ Consume(r, NoFrame("none"))
        /\ IF Initialize(r) # "none" THEN Raise(Initialize(r))
           ELSE Goto("login")
    /\ UNCHANGED dataVars

\* line 351: await esl.login(self._password); the value is not looked at
LoginRead ==
    /\ pc = "login" /\ io = "read"
    /\ \E r \in PeerResponses({ErrBody}) :
        /\ Consume(r, NoFrame("none"))
        /\ IF Login(r).err # "none"
           THEN Raise(Login(r).err) /\ UNCHANGED loginResult
           ELSE Goto("process") /\ loginResult' = Login(r).result
    /\ UNCHANGED <<rows, rowIdx, dumps, process, channel_metrics,
                   channel_info_metric, profiles, profIdx, fields, gauges>>

\* line 354: ESLProcessInfo(esl).collect()
ProcessRead ==
    /\ pc = "process" /\ io = "read"
    /\ \E r \in PeerResponses(StatusBodies) :
        /\ Consume(r, Send(r))
        /\ LET o == Send(r)
               loaded == JsonLoads(o.body)
               obj == loaded.val
           IN IF o.err # "none" THEN Raise(o.err) /\ UNCHANGED process
              ELSE IF ~loaded.ok
              THEN Raise("JSONDecodeError") /\ UNCHANGED process
              ELSE /\ process' = ProcessFamilies(Get(obj, "response", EmptyDict))
                   /\ Goto("calls")
    /\ UNCHANGED <<loginResult, rows, rowIdx, dumps, channel_metrics,
                   channel_info_metric, profiles, profIdx, fields, gauges>>

\* line 231: the loop takes row k of rws, or ends and the next collector runs
BeginRow(k, rws) ==
    /\ rowIdx' = k
    /\ IF k > Len(rws) THEN Goto("sofia")
       ELSE IF "uuid" \notin DOMAIN rws[k] THEN Raise("KeyError")
       ELSE Goto("stats")

\* line 229-230: send('api show calls as json') and the start of the loop
CallsRead ==
    /\ pc = "calls" /\ io = "read"
    /\ \E r \in PeerResponses(CallsBodies) :
        /\ Consume(r, Send(r))
        /\ LET o == Send(r)
               loaded == JsonLoads(o.body)
               obj == loaded.val
           IN IF o.err # "none" THEN Raise(o.err) /\ UNCHANGED <<rows, rowIdx>>
              ELSE IF ~loaded.ok
              THEN Raise("JSONDecodeError") /\ UNCHANGED <<rows, rowIdx>>
              ELSE /\ rows' = Get(obj, "rows", <<>>)
                   /\ BeginRow(1, rows')
    /\ UNCHANGED <<loginResult, dumps, process, channel_metrics,
                   channel_info_metric, profiles, profIdx, fields, gauges>>

\* line 233: send('api uuid_set_media_stats ...'), the response is dropped
StatsRead ==
    /\ pc = "stats" /\ io = "read"
    /\ \E r \in PeerResponses(StatsBodies) :
        /\ Consume(r, Send(r))
        /\ IF Send(r).err # "none" THEN Raise(Send(r).err) ELSE Goto("dump")
    /\ UNCHANGED dataVars

\* DumpRead, asking again for a row whose dump answered -ERR
DumpReadRetrying ==
    /\ pc = "dump" /\ io = "read"
    /\ \E r \in PeerResponses(DumpBodies) :
        /\ Consume(r, Send(r))
        /\ LET o == Send(r)
               loaded == JsonLoads(o.body)
               channel_vars == loaded.val
               row == rows[rowIdx]
               keep == UNCHANGED <<dumps, channel_metrics, channel_info_metric>>
           IN IF o.err # "none"
              THEN Raise(o.err) /\ keep /\ UNCHANGED rowIdx
              ELSE /\ dumps' = Append(dumps, o.body)
                   /\ IF StartsWith(o.body.lead, ErrPrefix)
                      THEN /\ UNCHANGED <<channel_metrics, channel_info_metric,
                                          rowIdx>>
                           /\ Goto("stats")
                      ELSE IF ~loaded.ok
                      THEN /\ Raise("JSONDecodeError")
                           /\ UNCHANGED <<channel_metrics, channel_info_metric,
                                          rowIdx>>
                      ELSE /\ channel_metrics' =
                                AddChannelVars(channel_metrics, row["uuid"],
                                               channel_vars)
                           /\ IF "name" \notin DOMAIN row
                              THEN /\ Raise("KeyError")
                                   /\ UNCHANGED <<channel_info_metric, rowIdx>>
                              ELSE /\ channel_info_metric' =
                                        Append(channel_info_metric,
                                               ChannelInfoSample(row, channel_vars))
                                   /\ BeginRow(rowIdx + 1, rows)
    /\ UNCHANGED <<loginResult, rows, process, profiles, profIdx, fields, gauges>>

\* lines 234-257: send('api uuid_dump ...') and the rest of the loop body
DumpRead ==
    /\ pc = "dump" /\ io = "read"
    /\ \E r \in PeerResponses(DumpBodies) :
        /\ Consume(r, Send(r))
        /\ LET o == Send(r)
               loaded == JsonLoads(o.body)
               channel_vars == loaded.val
               row == rows[rowIdx]
               keep == UNCHANGED <<dumps, channel_metrics, channel_info_metric>>
           IN IF o.err # "none"
              THEN Raise(o.err) /\ keep /\ UNCHANGED rowIdx
              ELSE /\ dumps' = Append(dumps, o.body)
                   /\ IF StartsWith(o.body.lead, ErrPrefix)
                      THEN /\ UNCHANGED <<channel_metrics, channel_info_metric>>
                           /\ BeginRow(rowIdx + 1, rows)
                      ELSE IF ~loaded.ok
                      THEN /\ Raise("JSONDecodeError")
                           /\ UNCHANGED <<channel_metrics, channel_info_metric,
                                          rowIdx>>
                      ELSE /\ channel_metrics' =
                                AddChannelVars(channel_metrics, row["uuid"],
                                               channel_vars)
                           /\ IF "name" \notin DOMAIN row
                              THEN /\ Raise("KeyError")
                                   /\ UNCHANGED <<channel_info_metric, rowIdx>>
                              ELSE /\ channel_info_metric' =
                                        Append(channel_info_metric,
                                               ChannelInfoSample(row, channel_vars))
                                   /\ BeginRow(rowIdx + 1, rows)
    /\ UNCHANGED <<loginResult, rows, process, profiles, profIdx, fields, gauges>>

\* the three collectors' results chained last to first
ChainReversed(p, cm, info, gs, fs) ==
    SofiaFamilies(gs, fs) \o ChannelFamilies(cm, info) \o p

\* lines 353-357: the chain of the three collectors' results
Chain(p, cm, info, gs, fs) ==
    p \o ChannelFamilies(cm, info) \o SofiaFamilies(gs, fs)

\* line 316: the loop takes profile k of ps, or ends and _collect returns
BeginProfile(k, ps, gs, fs) ==
    /\ profIdx' = k
    /\ IF k > Len(ps)
       THEN Return(Chain(process, channel_metrics, channel_info_metric, gs, fs))
       ELSE Goto("profile")

\* lines 314-316: send('api sofia status') and the start of the loop
SofiaRead ==
    /\ pc = "sofia" /\ io = "read"
    /\ \E r \in PeerResponses(ListingBodies) :
        /\ Consume(r, Send(r))
        /\ LET o == Send(r)
               parsed == profile_list_from_sofia_status(o.body)
               list == parsed.val
           IN IF o.err # "none" THEN Raise(o.err) /\ UNCHANGED <<profiles, profIdx>>
              ELSE IF ~parsed.ok
              THEN Raise("ParseError") /\ UNCHANGED <<profiles, profIdx>>
              ELSE /\ profiles' = list
                   /\ BeginProfile(1, list, gauges, fields)
    /\ UNCHANGED <<loginResult, rows, rowIdx, dumps, process, channel_metrics,
                   channel_info_metric, fields, gauges>>

\* the loop body with a status text that does not parse passed over: the
\* loop goes on to the next profile
ProfileReadSkipping ==
    /\ pc = "profile" /\ io = "read"
    /\ \E r \in PeerResponses(ProfileBodies(profiles[profIdx])) :
        /\ Consume(r, Send(r))
        /\ LET o == Send(r)
               parsed == SofiaProfileStatus(o.body)
               status == parsed.val
           IN IF o.err # "none"
              THEN Raise(o.err) /\ UNCHANGED <<profIdx, fields, gauges>>
              ELSE IF ~parsed.ok
              THEN /\ UNCHANGED <<fields, gauges>>
                   /\ BeginProfile(profIdx + 1, profiles, gauges, fields)
              ELSE /\ fields' = AddProfileStatus(fields, status)
                   /\ gauges' = AppendGauges(gauges)
                   /\ BeginProfile(profIdx + 1, profiles, gauges', fields')
    /\ UNCHANGED <<loginResult, rows, rowIdx, dumps, process, channel_metrics,
                   channel_info_metric, profiles>>

\* lines 317-322: send('api sofia status profile ...') and the loop body
ProfileRead ==
    /\ pc = "profile" /\ io = "read"
    /\ \E r \in PeerResponses(ProfileBodies(profiles[profIdx])) :
        /\ Consume(r, Send(r))
        /\ LET o == Send(r)
               parsed == SofiaProfileStatus(o.body)
               status == parsed.val
           IN IF o.err # "none"
              THEN Raise(o.err) /\ UNCHANGED <<profIdx, fields, gauges>>
              ELSE IF ~parsed.ok
              THEN Raise("ParseError") /\ UNCHANGED <<profIdx, fields, gauges>>
              ELSE /\ fields' = AddProfileStatus(fields, status)
                   /\ gauges' = AppendGauges(gauges)
                   /\ BeginProfile(profIdx + 1, profiles, gauges', fields')
    /\ UNCHANGED <<loginResult, rows, rowIdx, dumps, process, channel_metrics,
                   channel_info_metric, profiles>>

Next ==
    \/ Connect
    \/ Write
    \/ Drain
    \/ InitializeRead
    \/ LoginRead
    \/ ProcessRead
    \/ CallsRead
    \/ StatsRead
    \/ DumpRead
    \/ SofiaRead
    \/ ProfileRead

Spec == Init /\ [][Next]_vars

\* Spec for a peer that answers every read with a frame or with the end of
\* the stream, and an event loop that runs the coroutine: a step that can be
\* taken is taken
LiveSpec == Spec /\ WF_vars(Next)


----------------------------------------------------------------------------
(* esl.py : the framing algorithm over a stream of bytes.                  *)
(* A stream is a sequence of one-character strings; s[pos] is the next     *)
(* unread byte.                                                            *)

\* most frames the peer puts on the stream
MaxFrames == 2

NL == "\n"
Whitespace == {" ", NL, "\t", "\r"}
DigitChars == <<"0", "1", "2", "3", "4", "5", "6", "7", "8", "9">>
CONTENT_LENGTH == <<"C", "o", "n", "t", "e", "n", "t", "-",
                    "L", "e", "n", "g", "t", "h">>

\* the least index i >= from with s[i] = c, or 0
RECURSIVE Find(_, _, _)
Find(s, c, from) ==
    IF from > Len(s) THEN 0
    ELSE IF s[from] = c THEN from
    ELSE Find(s, c, from + 1)

\* StreamReader.readline: up to and including the next newline, or up to
\* end-of-stream when no newline is left
readline(s, pos) ==
    LET i == Find(s, NL, pos)
    IN IF i = 0 THEN SubSeq(s, pos, Len(s)) ELSE SubSeq(s, pos, i)

\* str.strip
RECURSIVE strip(_)
strip(s) ==
    IF s = <<>> THEN s
    ELSE IF s[1] \in Whitespace THEN strip(Tail(s))
    ELSE IF s[Len(s)] \in Whitespace THEN strip(SubSeq(s, 1, Len(s) - 1))
    ELSE s

\* the value of a string of decimal digits
RECURSIVE DigitsValue(_)
DigitsValue(s) ==
    IF s = <<>> THEN 0
    ELSE DigitsValue(SubSeq(s, 1, Len(s) - 1)) * 10
         + (Find(DigitChars, s[Len(s)], 1) - 1)

\* int(str): the value, or a ValueError
ParseInt(s) ==
    LET digits == IF s # <<>> /\ s[1] \in {"+", "-"} THEN Tail(s) ELSE s
    IN IF digits = <<>> \/ \E i \in DOMAIN digits : Find(DigitChars, digits[i], 1) = 0
       THEN [err |-> "ValueError", val |-> 0]
       ELSE [err |-> "none",
             val |-> IF s[1] = "-" THEN 0 - DigitsValue(digits)
                     ELSE DigitsValue(digits)]

\* headers[name] = value
SetItem(d, name, value) ==
    [k \in DOMAIN d \cup {name} |-> IF k = name THEN value ELSE d[k]]

ReadFailed(e, pos) == [err |-> e, headers |-> EmptyDict, body |-> <<>>, pos |-> pos]

\* _read_headers with end-of-stream taken for the end of the header block
RECURSIVE read_headers_eof_ends(_, _, _)
read_headers_eof_ends(s, pos, headers) ==
    LET line == readline(s, pos)
        after == pos + Len(line)
        colon == Find(line, ":", 1)
    IN IF Len(line) = 0 \/ line = <<NL>>
       THEN [err |-> "none", headers |-> headers, body |-> <<>>, pos |-> after]
       ELSE IF line[Len(line)] # NL
       THEN ReadFailed("ESLHeaderError", after)
       ELSE IF colon = 0
       THEN ReadFailed("ValueError", after)
       ELSE read_headers_eof_ends(s, after,
                SetItem(headers, strip(SubSeq(line, 1, colon - 1)),
                                 strip(SubSeq(line, colon + 1, Len(line)))))

\* ESL._read_headers from position pos, with the headers read so far
RECURSIVE read_headers(_, _, _)
read_headers(s, pos, headers) ==
    LET line == readline(s, pos)
        after == pos + Len(line)
        colon == Find(line, ":", 1)
    IN IF Len(line) = 0 \/ line[Len(line)] # NL
       THEN ReadFailed("ESLHeaderError", after)
       ELSE IF line = <<NL>>
       THEN [err |-> "none", headers |-> headers, body |-> <<>>, pos |-> after]
       ELSE IF colon = 0
       THEN ReadFailed("ValueError", after)
       ELSE read_headers(s, after,
                SetItem(headers, strip(SubSeq(line, 1, colon - 1)),
                                 strip(SubSeq(line, colon + 1, Len(line)))))

\* _read_body that never looks at Content-Length
read_body_no_length(s, pos, headers) ==
    [err |-> "none", headers |-> headers, body |-> <<>>, pos |-> pos]

\* ESL._read_body from position pos; readexactly fails on a short stream
read_body(s, pos, headers) ==
    IF CONTENT_LENGTH \in DOMAIN headers
    THEN LET size == ParseInt(headers[CONTENT_LENGTH])
         IN IF size.err # "none" \/ size.val < 0
            THEN ReadFailed("ValueError", pos)
            ELSE IF pos + size.val - 1 > Len(s)
            THEN ReadFailed("IncompleteReadError", Len(s) + 1)
            ELSE [err |-> "none", headers |-> headers,
                  body |-> SubSeq(s, pos, pos + size.val - 1),
                  pos |-> pos + size.val]
    ELSE [err |-> "none", headers |-> headers, body |-> <<>>, pos |-> pos]

\* one frame: _read_headers, then _read_body
read_frame(s, pos) ==
    LET h == read_headers(s, pos, EmptyDict)
    IN IF h.err # "none" THEN h ELSE read_body(s, h.pos, h.headers)

(* The peer's side: frames and their encoding on the wire *)

\* decimal digits of a natural number
RECURSIVE Decimal(_)
Decimal(n) ==
    IF n < 10 THEN <<DigitChars[n + 1]>>
    ELSE Decimal(n \div 10) \o <<DigitChars[(n % 10) + 1]>>

HeaderLine(name, value) == name \o <<":", " ">> \o value \o <<NL>>

RECURSIVE HeaderLines(_)
HeaderLines(hs) ==
    IF hs = <<>> THEN <<>>
    ELSE HeaderLine(hs[1][1], hs[1][2]) \o HeaderLines(Tail(hs))

\* a frame on the wire: header lines, Content-Length when a body is declared,
\* the blank line, the body bytes
HeaderBlock(f) ==
    HeaderLines(f.headers)
    \o (IF f.declared THEN HeaderLine(CONTENT_LENGTH, Decimal(Len(f.body)))
        ELSE <<>>)
    \o <<NL>>

Encode(f) == HeaderBlock(f) \o f.body

RECURSIVE EncodeAll(_)
EncodeAll(fs) == IF fs = <<>> THEN <<>> ELSE Encode(fs[1]) \o EncodeAll(Tail(fs))

\* the header mapping the peer meant by the frame
RECURSIVE HeaderMap(_)
HeaderMap(hs) ==
    IF hs = <<>> THEN EmptyDict
    ELSE (hs[1][1] :> hs[1][2]) @@ HeaderMap(Tail(hs))

Meant(f) ==
    IF f.declared
    THEN HeaderMap(f.headers) @@ (CONTENT_LENGTH :> Decimal(Len(f.body)))
    ELSE HeaderMap(f.headers)

HdrType == << <<"T">>, <<"a", "p", "i">> >>
HdrReply == << <<"R", "-", "T">>, <<"+", "O", "K", " ", "a", ":", "b">> >>
BodyHeaderLike == <<"T", ":", " ", "z", NL, NL>>
BodyLong == <<"{", NL, NL, "a", ":", "1", NL, NL, NL, "}">>

WireFrame(hs, declared, body) ==
    [headers |-> hs, declared |-> declared, body |-> body]

\* valid frames: a body is there only when Content-Length declares it
FrameSet ==
    { WireFrame(<<>>, FALSE, <<>>),
      WireFrame(<<HdrType>>, FALSE, <<>>),
      WireFrame(<<HdrType, HdrReply>>, TRUE, <<>>),
      WireFrame(<<HdrType>>, TRUE, BodyHeaderLike),
      WireFrame(<<>>, TRUE, BodyLong),
      WireFrame(<<HdrReply>>, TRUE, <<"x">>) }

FrameSeqs == UNION { [1..n -> FrameSet] : n \in 0..MaxFrames }

\* the stream holds the encoded frames, cut at any byte or not at all
FrameInit ==
    /\ frames \in FrameSeqs
    /\ \E cut \in 0..Len(EncodeAll(frames)) :
         /\ stream = SubSeq(EncodeAll(frames), 1, cut)
         /\ cuts = (cut < Len(EncodeAll(frames)))
    /\ cursor = 1
    /\ got = <<>>
    /\ pc = "frames"
    /\ io = "read"
    /\ conn = "open"
    /\ closes = 0
    /\ written = <<>>
    /\ drained = 0
    /\ framesRead = 0
    /\ resp = NoResponse
    /\ reply = NoFrame("none")
    /\ loginResult = "none"
    /\ rows = <<>>
    /\ rowIdx = 0
    /\ dumps = <<>>
    /\ process = <<>>
    /\ channel_metrics = [key \in Range(ChannelKeys) |-> <<>>]
    /\ channel_info_metric = <<>>
    /\ profiles = <<>>
    /\ profIdx = 0
    /\ fields = [name \in Range(SofiaFields) |-> <<>>]
    /\ gauges = <<>>
    /\ result = NoResult
    /\ error = "none"
    /\ parked = Locals

\* one read of a frame; a failed read ends the reading
FrameRead ==
    /\ pc = "frames"
    /\ IF got = <<>> THEN TRUE ELSE got[Len(got)].err = "none"
    /\ Len(got) <= Len(frames)
    /\ got' = Append(got, read_frame(stream, cursor))
    /\ cursor' = read_frame(stream, cursor).pos
    /\ UNCHANGED <<stream, frames, cuts, parked>>
    /\ UNCHANGED scrapeVars

FrameNext == FrameRead

FrameSpec == FrameInit /\ [][FrameNext]_vars

(* The same reads over a stream whose last frame has a malformed header line *)

\* newline-terminated lines that are not blank and hold no colon
BadLines ==
    { <<"T", NL>>, <<"a", "p", "i", " ", "x", NL>>, <<" ", NL>>, <<"\r", NL>> }

\* the stream s with `line` put in before position pos
InsertAt(s, pos, line) ==
    SubSeq(s, 1, pos - 1) \o line \o SubSeq(s, pos, Len(s))

\* the peer puts a malformed line into the header block of its last frame,
\* before the first header line or between the last one and the blank line
BadLineInit ==
    /\ frames \in FrameSeqs
    /\ frames # <<>>
    /\ \E line \in BadLines :
       \E pos \in { 1 + Len(EncodeAll(SubSeq(frames, 1, Len(frames) - 1))),
                    Len(EncodeAll(SubSeq(frames, 1, Len(frames) - 1)))
                      + Len(HeaderBlock(frames[Len(frames)])) } :
         stream = InsertAt(EncodeAll(frames), pos, line)
    /\ cuts = FALSE
    /\ cursor = 1
    /\ got = <<>>
    /\ pc = "frames"
    /\ io = "read"
    /\ conn = "open"
    /\ closes = 0
    /\ written = <<>>
    /\ drained = 0
    /\ framesRead = 0
    /\ resp = NoResponse
    /\ reply = NoFrame("none")
    /\ loginResult = "none"
    /\ rows = <<>>
    /\ rowIdx = 0
    /\ dumps = <<>>
    /\ process = <<>>
    /\ channel_metrics = [key \in Range(ChannelKeys) |-> <<>>]
    /\ channel_info_metric = <<>>
    /\ profiles = <<>>
    /\ profIdx = 0
    /\ fields = [name \in Range(SofiaFields) |-> <<>>]
    /\ gauges = <<>>
    /\ result = NoResult
    /\ error = "none"
    /\ parked = Locals

BadLineSpec == BadLineInit /\ [][FrameNext]_vars


----------------------------------------------------------------------------
(* collector.py : two scrapes at once, collect_esl called by two requests. *)
(* The scrape variables hold the locals of the call that is running and    *)
(* `parked` those of the other call; the scheduler may switch between the  *)
(* two at every suspension point.                                          *)

\* longest listings the peer answers with while two scrapes run
MaxPairRows == 1
MaxPairProfiles == 1

\* the errors by which a scrape learns that its connection is lost
ConnectionLost == {"OSError", "ConnectionResetError", "ESLHeaderError"}

\* a JSON body as FreeSWITCH writes it: a full status object, a listing of
\* complete rows, or a dump with its variables
GoodJson(v) ==
    IF "rows" \in DOMAIN v
    THEN \A i \in DOMAIN v["rows"] : DOMAIN v["rows"][i] = {"uuid", "name"}
    ELSE IF "response" \in DOMAIN v THEN "version" \in DOMAIN v["response"]
    ELSE "variable_rtp_audio_in_mos" \in DOMAIN v

\* the peer of a step of PairSpec: a FreeSWITCH that answers every command
\* with a frame the client accepts, over a connection that may be lost at
\* any read or write
PairPeer ==
    /\ error' \in {"none"} \cup ConnectionLost
    /\ resp'.body.kind = "json" => GoodJson(resp'.body.val)
    /\ Len(rows') <= MaxPairRows
    /\ Len(profiles') <= MaxPairProfiles

\* a switch that leaves the metric families where they are, as if the two
\* calls built their samples in the same family objects
SwitchSharedFamilies ==
    /\ parked' = Locals
    /\ pc' = parked.pc
    /\ io' = parked.io
    /\ conn' = parked.conn
    /\ closes' = parked.closes
    /\ written' = parked.written
    /\ drained' = parked.drained
    /\ framesRead' = parked.framesRead
    /\ resp' = parked.resp
    /\ reply' = parked.reply
    /\ loginResult' = parked.loginResult
    /\ rows' = parked.rows
    /\ rowIdx' = parked.rowIdx
    /\ dumps' = parked.dumps
    /\ process' = parked.process
    /\ profiles' = parked.profiles
    /\ profIdx' = parked.profIdx
    /\ result' = parked.result
    /\ error' = parked.error
    /\ UNCHANGED <<channel_metrics, channel_info_metric, fields, gauges>>
    /\ UNCHANGED frameVars

\* the scheduler suspends the running call and resumes the other: every
\* local of _collect, its ESL object and its families belongs to one call
Switch ==
    /\ parked' = Locals
    /\ pc' = parked.pc
    /\ io' = parked.io
    /\ conn' = parked.conn
    /\ closes' = parked.closes
    /\ written' = parked.written
    /\ drained' = parked.drained
    /\ framesRead' = parked.framesRead
    /\ resp' = parked.resp
    /\ reply' = parked.reply
    /\ loginResult' = parked.loginResult
    /\ rows' = parked.rows
    /\ rowIdx' = parked.rowIdx
    /\ dumps' = parked.dumps
    /\ process' = parked.process
    /\ channel_metrics' = parked.channel_metrics
    /\ channel_info_metric' = parked.channel_info_metric
    /\ profiles' = parked.profiles
    /\ profIdx' = parked.profIdx
    /\ fields' = parked.fields
    /\ gauges' = parked.gauges
    /\ result' = parked.result
    /\ error' = parked.error
    /\ UNCHANGED frameVars

\* a step of the running call, or a switch to the other
PairNext ==
    \/ Connect /\ PairPeer
    \/ Write /\ PairPeer
    \/ Drain /\ PairPeer
    \/ InitializeRead /\ PairPeer
    \/ LoginRead /\ PairPeer
    \/ ProcessRead /\ PairPeer
    \/ CallsRead /\ PairPeer
    \/ StatsRead /\ PairPeer
    \/ DumpRead /\ PairPeer
    \/ SofiaRead /\ PairPeer
    \/ ProfileRead /\ PairPeer
    \/ Switch

PairSpec == Init /\ [][PairNext]_vars


----------------------------------------------------------------------------
(* Properties of the framing algorithm (FrameSpec) *)

\* where frame k of fs starts, where its header block ends, where it ends
FrameStart(fs, k) == 1 + Len(EncodeAll(SubSeq(fs, 1, k - 1)))
HeaderEnd(fs, k) == FrameStart(fs, k) + Len(HeaderBlock(fs[k])) - 1
FrameEnd(fs, k) == FrameStart(fs, k) + Len(Encode(fs[k])) - 1

\* read i meets end-of-stream before the blank line that ends its header block
EndsInHeaders(i) ==
    IF i > Len(frames) THEN TRUE ELSE Len(stream) < HeaderEnd(frames, i)

\* C4: a read whose header block is cut short by end-of-stream (at a line
\* boundary or inside a line) fails with ESLHeaderError and hands back no
\* headers, however many complete header lines came before the cut.
C4_TruncatedHeadersFail ==
    \A i \in DOMAIN got :
        EndsInHeaders(i) =>
            /\ got[i].err = "ESLHeaderError"
            /\ got[i].headers = EmptyDict
            /\ got[i].body = <<>>

\* a read that failed inside the second header line of a frame, the last
\* line lacking its terminator
C4_Witness ==
    \E i \in DOMAIN got :
        /\ i <= Len(frames)
        /\ Len(frames[i].headers) = 2
        /\ Len(stream) > FrameStart(frames, i)
                         + Len(HeaderLine(frames[i].headers[1][1],
                                          frames[i].headers[1][2]))
        /\ Len(stream) < HeaderEnd(frames, i)
        /\ stream[Len(stream)] # NL
        /\ got[i].err = "ESLHeaderError"

\* C6: every frame that is whole on the stream is read back as the header
\* mapping and the body the peer encoded, the body is non-empty only under a
\* Content-Length header and has the declared length, and the cursor is left
\* on the first byte of the next frame.
C6_FrameRoundTrip ==
    \A i \in DOMAIN got :
        (i <= Len(frames) /\ Len(stream) >= FrameEnd(frames, i)) =>
            /\ got[i].err = "none"
            /\ got[i].headers = Meant(frames[i])
            /\ got[i].body = frames[i].body
            /\ got[i].pos = FrameEnd(frames, i) + 1
            /\ got[i].body # <<>> => CONTENT_LENGTH \in DOMAIN got[i].headers
            /\ CONTENT_LENGTH \in DOMAIN got[i].headers =>
                 Len(got[i].body) = ParseInt(got[i].headers[CONTENT_LENGTH]).val

\* two frames read in a row, the first with a body of header-like lines and
\* blank lines
C6_Witness ==
    /\ Len(got) >= 2
    /\ got[1].err = "none"
    /\ got[1].body = BodyHeaderLike
    /\ got[2].err = "none"
    /\ Len(got[2].body) = 10
    /\ cursor = Len(stream) + 1


\* C19: the read of a frame whose header block holds, before the blank
\* line, a newline-terminated line that is not blank and has no colon fails
\* with ESLHeaderError and hands back no headers and no body.
C19_MalformedLineIsHeaderError ==
    \A i \in DOMAIN got :
        i = Len(frames) =>
            /\ got[i].err = "ESLHeaderError"
            /\ got[i].headers = EmptyDict
            /\ got[i].body = <<>>


----------------------------------------------------------------------------
(* Properties of one scrape (Spec) *)

\* the response is a whole frame: a header block and all of its body
Complete(r) ==
    /\ r.hdr = "ok"
    /\ "Content-Length" \in DOMAIN r.headers => ~r.short

ContentType(r) == Get(r.headers, "Content-Type", Absent)
ReplyText(r) == Get(r.headers, "Reply-Text", Absent)

\* the states in which resp is the answer to initialize, login, the last send
InitAnswered == resp.hdr # "none" /\ Len(written) = 0
LoginAnswered == Len(written) = 1 /\ drained = 1 /\ pc # "login"
SendAnswered ==
    Len(written) >= 2 /\ drained = Len(written) /\ io \in {"write", "idle"}

\* C1: after a login that returned false no command but the auth command is
\* on the connection and no observations are returned.
C1_RejectedLoginAborts ==
    loginResult = "false" =>
        /\ \A i \in DOMAIN written : written[i][1] = "auth"
        /\ result = NoResult

\* C2: a scrape that opened its connection closes it exactly once, and has
\* done so in every state in which it has returned or raised.
C2_ClosedExactlyOnce ==
    /\ closes <= 1
    /\ pc # "done" => closes = 0 /\ conn \in {"none", "open"}
    /\ pc = "done" =>
         IF error = "OSError" THEN conn = "none" /\ closes = 0
         ELSE conn = "closed" /\ closes = 1

\* a parse failure inside a sub-collector, the connection closed
C2_Witness ==
    /\ pc = "done"
    /\ error = "JSONDecodeError"
    /\ Len(written) >= 4
    /\ conn = "closed"
    /\ closes = 1

IsErrBody(body) ==
    /\ Len(body.lead) >= 5
    /\ \A i \in 1..5 : body.lead[i] = ErrPrefix[i]

AllRowsComplete == \A i \in DOMAIN rows : DOMAIN rows[i] = {"uuid", "name"}

\* the rows whose dump has been answered with a body that is not an error
\* indicator and parses
RECURSIVE Emitted(_)
Emitted(n) ==
    IF n = 0 THEN <<>>
    ELSE IF dumps[n].kind = "json" THEN Append(Emitted(n - 1), rows[n]["uuid"])
    ELSE Emitted(n - 1)

\* C3: in a listing whose rows all carry uuid and name, a row whose dump body
\* begins with "-ERR " does not end the scrape, the loop goes on to the next
\* row, rtp_channel_info holds exactly one sample for every non-error row and
\* no family holds a sample of an error row.
C3_ErrorRowSkipped ==
    AllRowsComplete =>
        /\ \A i \in DOMAIN dumps :
             IsErrBody(dumps[i]) =>
                /\ rowIdx > i
                /\ \A key \in DOMAIN channel_metrics :
                     \A k \in DOMAIN channel_metrics[key] :
                        channel_metrics[key][k].labels # <<rows[i]["uuid"]>>
                /\ \A k \in DOMAIN channel_info_metric :
                     channel_info_metric[k].labels[1] # rows[i]["uuid"]
        /\ [k \in DOMAIN channel_info_metric |->
               channel_info_metric[k].labels[1]] = Emitted(Len(dumps))
        /\ pc \in {"sofia", "profile"} => Len(dumps) = Len(rows)
        /\ (pc = "done" /\ error = "none") =>
             /\ Len(dumps) = Len(rows)
             /\ result[Len(process) + Len(ChannelKeys) + 1]
                  = Family("rtp_channel_info", channel_info_metric)

\* two rows, the first dump an error body, the second a channel: one sample
C3_Witness ==
    /\ pc = "sofia"
    /\ Len(rows) = 2
    /\ Len(dumps) = 2
    /\ IsErrBody(dumps[1])
    /\ dumps[2].kind = "json"
    /\ Len(channel_info_metric) = 1

\* C5: over all complete frames, login returns true exactly for command/reply
\* with Reply-Text "+OK accepted", returns false for text/rude-rejection,
\* raises ESLProtocolError for every other content type, and does nothing
\* else.
C5_LoginThreeOutcomes ==
    (LoginAnswered /\ Complete(resp)) =>
        /\ loginResult = "true" <=>
             (ContentType(resp) = "command/reply"
              /\ ReplyText(resp) = "+OK accepted")
        /\ ContentType(resp) = "text/rude-rejection" =>
             (loginResult = "false" /\ error = "none")
        /\ (ContentType(resp) \in ContentTypes
              \ {"command/reply", "text/rude-rejection"}) =>
             error = "ESLProtocolError"
        /\ \/ loginResult = "true" /\ error = "none"
           \/ loginResult = "false" /\ error = "none"
           \/ loginResult = "none" /\ error = "ESLProtocolError"

\* C7: a command is written only when every earlier command has been drained
\* and answered, the read of its answer begins only when its write is
\* drained, and between operations frames read = commands written + 1.
C7_OneCommandOutstanding ==
    /\ io = "write" => drained = Len(written) /\ framesRead = Len(written) + 1
    /\ io = "drain" => drained + 1 = Len(written) /\ framesRead = Len(written)
    /\ (io = "read" /\ pc # "initialize") =>
         drained = Len(written) /\ framesRead = Len(written)
    /\ (pc = "done" /\ error = "none") => framesRead = Len(written) + 1
    /\ Len(written) - framesRead <= 0
    /\ Len(written) - drained <= 1

\* the dump of the second row is being awaited: six commands, six answers
C7_Witness ==
    /\ pc = "dump"
    /\ rowIdx = 2
    /\ io = "read"
    /\ Len(written) = 7
    /\ drained = 7
    /\ framesRead = 7

\* C8: initialize reads one frame and writes nothing, succeeds exactly on a
\* complete auth/request frame, and fails with ESLProtocolError on any other
\* content type and with ESLProtocolError or ESLHeaderError when the stream
\* ends before the frame is complete.
C8_InitializeOutcomes ==
    InitAnswered =>
        /\ written = <<>>
        /\ framesRead <= 1
        /\ (pc = "login" /\ error = "none") <=>
             (Complete(resp) /\ ContentType(resp) = "auth/request")
        /\ (Complete(resp) /\ ContentType(resp) \in ContentTypes \ {"auth/request"})
             => error = "ESLProtocolError"
        /\ (resp.hdr = "eof" \/ (resp.hdr = "ok" /\ ~Complete(resp)))
             => error \in {"ESLProtocolError", "ESLHeaderError"}

\* C9: a send has written one command and read one frame; on a complete frame
\* with a content type it returns the frame's headers and body when the type
\* is api/response, and otherwise raises ESLProtocolError and returns nothing.
C9_SendOutcomes ==
    (SendAnswered /\ Complete(resp) /\ ContentType(resp) \in ContentTypes) =>
        /\ framesRead = Len(written) + 1
        /\ IF ContentType(resp) = "api/response"
           THEN /\ reply.err = "none"
                /\ reply.headers = resp.headers
                /\ reply.body = resp.body
                /\ error # "ESLProtocolError"
           ELSE /\ reply = NoFrame("ESLProtocolError")
                /\ error = "ESLProtocolError"
                /\ pc = "done"
                /\ result = NoResult

\* a send answered by a complete frame of another content type
C9_Witness ==
    /\ SendAnswered
    /\ Complete(resp)
    /\ ContentType(resp) = "command/reply"
    /\ error = "ESLProtocolError"
    /\ Len(written) = 3

\* C10: observations are returned only by a scrape that ended without error,
\* and then they are the families of all three sub-collectors; a scrape that
\* raised returns none of the families gathered before the error.
C10_AllOrNone ==
    /\ error # "none" => result = NoResult
    /\ pc # "done" => result = NoResult
    /\ result # NoResult =>
         /\ pc = "done" /\ error = "none"
         /\ Len(process) >= 3
         /\ Len(dumps) = Len(rows)
         /\ Len(gauges) = Len(SofiaFields) * Len(profiles)
         /\ result = process
                     \o ChannelFamilies(channel_metrics, channel_info_metric)
                     \o SofiaFamilies(gauges, fields)

\* a scrape that raised in the third sub-collector after the first two had
\* produced observations
C10_Witness ==
    /\ pc = "done"
    /\ error = "ParseError"
    /\ Len(process) >= 3
    /\ Len(channel_info_metric) >= 1
    /\ result = NoResult

\* the status command has just been answered by a body that parses to obj
ProcessAnswered ==
    /\ pc = "calls" /\ io = "write"
    /\ resp.body.kind = "json"

\* the `response` object of the status answer
ResponseObject == Get(resp.body.val, "response", EmptyDict)

\* C11: when the status answer has an empty or no `response` object,
\* ESLProcessInfo.collect does not raise and returns an info family without
\* sample, a status family with one sample of value 0, a memory family with
\* one sample of value 0 and no session family.
C11_MissingMapsToZero ==
    (ProcessAnswered /\ ResponseObject = EmptyDict) =>
        /\ error = "none"
        /\ Len(process) = 3
        /\ process[1].name = "freeswitch_info" /\ process[1].samples = <<>>
        /\ process[2].name = "freeswitch_up"
        /\ Len(process[2].samples) = 1
        /\ process[2].samples[1].value = 0
        /\ process[3].name = "freeswitch_stack_bytes"
        /\ Len(process[3].samples) = 1
        /\ process[3].samples[1].value = 0

\* the step of the scrape a written command belongs to: 0 the login, then
\* the sub-collectors 1 Process-Info, 2 Channel-Info, 3 Profile-Status
StageOf(cmd) ==
    CASE cmd[1] = "auth" -> 0
      [] cmd[1] = "api json {\"command\" : \"status\", \"data\" : \"\"}" -> 1
      [] cmd[1] \in {"api show calls as json", "api uuid_set_media_stats",
                     "api uuid_dump"} -> 2
      [] cmd[1] \in {"api sofia status", "api sofia status profile"} -> 3

\* C12: the first command is the login and it is written only after
\* initialize has read its frame; every later command is an api command
\* written after the login was answered; the commands of Process-Info come
\* before those of Channel-Info and these before those of Profile-Status,
\* each answered before the next is written; and a successful scrape returns
\* the families of Process-Info, then of Channel-Info, then of Profile-Status.
C12_StrictOrder ==
    /\ written # <<>> => (written[1] = <<"auth", Password>> /\ framesRead >= 1)
    /\ \A i \in DOMAIN written :
         /\ i >= 2 => StageOf(written[i]) >= 1
         /\ i < Len(written) =>
              /\ StageOf(written[i]) <= StageOf(written[i + 1])
              /\ framesRead >= i + 1
    /\ (pc = "done" /\ error = "none") =>
         LET n == Len(process)
             m == n + Len(ChannelKeys) + 1
         IN /\ Len(written) >= 4
            /\ StageOf(written[2]) = 1 /\ StageOf(written[3]) = 2
            /\ written[4 + 2 * Len(rows)] = <<"api sofia status">>
            /\ SubSeq(result, 1, n) = process
            /\ result[1].name = "freeswitch_info"
            /\ SubSeq(result, n + 1, m)
                 = ChannelFamilies(channel_metrics, channel_info_metric)
            /\ result[m].name = "rtp_channel_info"
            /\ SubSeq(result, m + 1, Len(result)) = SofiaFamilies(gauges, fields)
            /\ Len(result) = m + Len(gauges)

\* a successful scrape of two channels and two profiles: ten commands
C12_Witness ==
    /\ pc = "done"
    /\ error = "none"
    /\ Len(rows) = 2
    /\ Len(profiles) = 2
    /\ Len(written) = 10
    /\ Len(result) > Len(process) + Len(ChannelKeys) + 1

\* every sample of every family of fs, as the text exposition walks them
RECURSIVE Observations(_)
Observations(fs) ==
    IF fs = <<>> THEN <<>>
    ELSE [i \in 1..Len(fs[1].samples) |->
             [name |-> fs[1].name, labels |-> fs[1].samples[i].labels,
              value |-> fs[1].samples[i].value]]
         \o Observations(Tail(fs))

\* the part of a returned result that ESLSofiaStatusCollector.collect gave
SofiaResult ==
    SubSeq(result, Len(process) + Len(ChannelKeys) + 2, Len(result))

\* C13: when the listing of P profiles and every profile's status text
\* parse, the families returned by ESLSofiaStatusCollector.collect hold
\* 8 * P observations in all, exactly one for every pair of a status field
\* and a profile name.
C13_OnePerFieldPerProfile ==
    (pc = "done" /\ error = "none") =>
        LET obs == Observations(SofiaResult)
        IN /\ Len(obs) = Len(SofiaFields) * Len(profiles)
           /\ \A f \in Range(SofiaFields) : \A k \in DOMAIN profiles :
                Cardinality({ i \in DOMAIN obs :
                                /\ obs[i].name = f
                                /\ obs[i].labels = <<profiles[k]>> }) = 1

\* row i of the listing lacks its uuid or its name
Defective(i) == DOMAIN rows[i] # {"uuid", "name"}

\* C14: a row that lacks uuid or name does not abort the scrape (the loop
\* never raises on it once the answer in hand was accepted by send), the
\* loop goes on to the rows after it, and a returned result holds no
\* observation of that row.
C14_DefectiveRowSkipped ==
    \A i \in DOMAIN rows :
        Defective(i) =>
            /\ (rowIdx = i /\ Send(resp).err = "none") => error # "KeyError"
            /\ pc \in {"sofia", "profile"} => rowIdx = Len(rows) + 1
            /\ (pc = "done" /\ error = "none") =>
                 /\ rowIdx = Len(rows) + 1
                 /\ \A k \in DOMAIN result : \A s \in DOMAIN result[k].samples :
                      /\ result[k].samples[s].labels # <<Uuids[i]>>
                      /\ result[k].name = "rtp_channel_info" =>
                           /\ result[k].samples[s].labels[1] # Uuids[i]
                           /\ result[k].samples[s].labels[2] # Names[i]

\* the samples of catalog family `key` that carry the call id of row i
SamplesOf(key, i) ==
    { k \in DOMAIN channel_metrics[key] :
        channel_metrics[key][k].labels = <<rows[i]["uuid"]>> }

\* C17: for every row whose dump was not an error body and parsed, a catalog
\* family holds a sample labelled by the row's call id exactly when the dump
\* has a variable of that name, and then one sample only; its value times
\* 1000 is the dumped value for the three millisecond variables (1500 gives
\* 3/2) and it is the dumped value for every other catalog variable; a
\* dumped variable outside the catalog has no family.
C17_CatalogAndUnits ==
    \A i \in DOMAIN dumps :
        dumps[i].kind = "json" =>
            LET channel_vars == dumps[i].val
            IN /\ \A key \in Range(ChannelKeys) :
                    /\ key \in DOMAIN channel_vars <=> SamplesOf(key, i) # {}
                    /\ Cardinality(SamplesOf(key, i)) <= 1
                    /\ \A k \in SamplesOf(key, i) :
                         LET value == channel_metrics[key][k].value
                         IN IF key \in { "variable_rtp_audio_in_jitter_min_variance",
                                         "variable_rtp_audio_in_jitter_max_variance",
                                         "variable_rtp_audio_in_mean_interval" }
                            THEN /\ value.num * 1000 = channel_vars[key] * value.den
                                 /\ channel_vars[key] = 1500 =>
                                      value = [num |-> 3, den |-> 2]
                            ELSE value = channel_vars[key]
               /\ \A name \in DOMAIN channel_vars \ Range(ChannelKeys) :
                    /\ name \notin DOMAIN channel_metrics
                    /\ result # NoResult =>
                         \A k \in DOMAIN result : result[k].name # name

\* two channels dumped: the second's mean interval of 1500 ms is emitted as
\* 3/2, its raw byte count of 1500 as 1500, and a catalog variable the dump
\* lacks has no sample
C17_Witness ==
    /\ pc = "sofia"
    /\ Len(dumps) = 2
    /\ dumps[2].kind = "json"
    /\ "variable_read_codec" \in DOMAIN dumps[2].val
    /\ \E k \in SamplesOf("variable_rtp_audio_in_mean_interval", 2) :
         channel_metrics["variable_rtp_audio_in_mean_interval"][k].value
           = [num |-> 3, den |-> 2]
    /\ \E k \in SamplesOf("variable_rtp_audio_in_raw_bytes", 2) :
         channel_metrics["variable_rtp_audio_in_raw_bytes"][k].value = 1500
    /\ SamplesOf("variable_rtp_audio_in_flaw_total", 2) = {}

\* the commands of Channel-Info that are on the connection
ChannelCommands == { i \in DOMAIN written : StageOf(written[i]) = 2 }

\* the last command written has been answered by a frame send accepted
LastAnswered == framesRead = Len(written) + 1 /\ Send(resp).err = "none"

\* C18: Channel-Info writes "show calls" once and first; after it the
\* commands come in pairs in listing order, uuid_set_media_stats then
\* uuid_dump for the uuid of row k, and the pair of row k+1 begins only when
\* the dump of row k has been read; an accepted answer to the refresh leads
\* to the dump of the same row whatever its body; when the listing has no
\* (or an empty) row list no per-channel command is written and the
\* collector ends without error and without a channel sample.
C18_ChannelCommandSequence ==
    /\ \A i \in ChannelCommands :
         IF i = 3 THEN written[i] = <<"api show calls as json">>
         ELSE LET k == (i - 2) \div 2
              IN /\ i > 3
                 /\ k <= Len(rows)
                 /\ Len(dumps) >= k - 1
                 /\ "uuid" \in DOMAIN rows[k]
                 /\ written[i] =
                      IF i % 2 = 0
                      THEN <<"api uuid_set_media_stats", rows[k]["uuid"]>>
                      ELSE <<"api uuid_dump", rows[k]["uuid"], "json">>
    /\ (pc \in {"sofia", "profile"} \/ (pc = "done" /\ error = "none")) =>
         /\ ChannelCommands = 3..(3 + 2 * Len(rows))
         /\ Len(dumps) = Len(rows)
    /\ (Len(written) >= 4 /\ Len(written) % 2 = 0
          /\ ChannelCommands = 3..Len(written) /\ LastAnswered) =>
         /\ pc = "dump" /\ io = "write" /\ error = "none"
         /\ rowIdx = (Len(written) - 2) \div 2
         /\ Len(dumps) = rowIdx - 1
    /\ (Len(written) = 3 /\ LastAnswered /\ resp.body.kind = "json") =>
         (Get(resp.body.val, "rows", <<>>) = <<>> =>
            /\ pc = "sofia" /\ io = "write" /\ error = "none"
            /\ channel_info_metric = <<>>
            /\ \A key \in DOMAIN channel_metrics : channel_metrics[key] = <<>>)
    /\ (rows = <<>> /\ pc = "done" /\ error = "none") =>
         /\ ChannelCommands = {3}
         /\ \A k \in DOMAIN result :
              (result[k].name \in Range(ChannelKeys) \cup {"rtp_channel_info"})
                 => result[k].samples = <<>>

\* the refresh of the second row was answered with an error body and the
\* dump of that row is the next command
C18_Witness ==
    /\ pc = "dump"
    /\ io = "write"
    /\ rowIdx = 2
    /\ Len(written) = 6
    /\ LastAnswered
    /\ IsErrBody(resp.body)
    /\ written[6] = <<"api uuid_set_media_stats", "uuid-2">>

\* the stream ended after a whole header block that declares a body, before
\* the declared bytes had all arrived
BodyCutShort(r) ==
    r.hdr = "ok" /\ "Content-Length" \in DOMAIN r.headers /\ r.short

\* C16: when the stream ends after the header block and before the whole
\* Content-Length body, the operation that was reading (initialize, login or
\* send) fails with ESLProtocolError: the scrape ends with that error, and
\* no body is handed to the caller.
C16_ShortBodyIsProtocolError ==
    BodyCutShort(resp) =>
        /\ pc = "done"
        /\ error = "ESLProtocolError"
        /\ reply.body = EmptyBody
        /\ result = NoResult

\* C20: when the frame just read is whole and has no Content-Type header,
\* the operation that read it (initialize when nothing is written yet, login
\* after the auth command, send after any later command) fails with
\* ESLProtocolError: the scrape ends with that error and returns nothing.
C20_NoContentTypeIsProtocolError ==
    (Complete(resp) /\ "Content-Type" \notin DOMAIN resp.headers) =>
        /\ pc = "done"
        /\ error = "ESLProtocolError"
        /\ Len(written) = 1 => loginResult = "none"
        /\ Len(written) >= 2 => reply = NoFrame("ESLProtocolError")
        /\ result = NoResult

\* the status commands written for single profiles
ProfileCommands ==
    { i \in DOMAIN written : written[i][1] = "api sofia status profile" }

\* send returned the answer to a profile's status command and the text does
\* not parse
ProfileParseFailed ==
    /\ written # <<>>
    /\ Len(written) \in ProfileCommands
    /\ LastAnswered
    /\ resp.body.kind # "status"

\* C21: when the status text of profile k does not parse, the scrape has
\* ended with an error, it returns nothing although Process-Info and
\* Channel-Info had gathered their families, its connection is closed, and
\* the command for profile k is the last one written: k profile commands,
\* none for a later profile.
C21_NoProfileIsolation ==
    ProfileParseFailed =>
        /\ pc = "done"
        /\ error # "none"
        /\ result = NoResult
        /\ Len(process) >= 3
        /\ conn = "closed" /\ closes = 1
        /\ profIdx \in DOMAIN profiles
        /\ written[Len(written)] = <<"api sofia status profile", profiles[profIdx]>>
        /\ Cardinality(ProfileCommands) = profIdx

\* the first of two profiles failed to parse after a channel's samples had
\* been gathered: one profile command, none for the second profile
C21_Witness ==
    /\ ProfileParseFailed
    /\ Len(profiles) = 2
    /\ profIdx = 1
    /\ Cardinality(ProfileCommands) = 1
    /\ Len(channel_info_metric) >= 1
    /\ pc = "done"
    /\ conn = "closed"

\* C22: a login answered by a whole command/reply frame whose Reply-Text is
\* there and is not "+OK accepted" raises ESLProtocolError and returns no
\* value; a login that returned false was answered by a text/rude-rejection
\* frame.
C22_WrongReplyTextRaises ==
    LoginAnswered =>
        /\ (/\ Complete(resp)
            /\ ContentType(resp) = "command/reply"
            /\ ReplyText(resp) \notin {Absent, "+OK accepted"}) =>
               /\ pc = "done"
               /\ error = "ESLProtocolError"
               /\ loginResult = "none"
        /\ loginResult = "false" =>
               /\ ContentType(resp) = "text/rude-rejection"
               /\ error = "none"

\* the auth command answered by command/reply with "-ERR invalid"
C22_Witness ==
    /\ LoginAnswered
    /\ Complete(resp)
    /\ ContentType(resp) = "command/reply"
    /\ ReplyText(resp) = "-ERR invalid"
    /\ error = "ESLProtocolError"
    /\ loginResult = "none"
    /\ conn = "closed"

\* the commands written, each at most once
NoCommandTwice ==
    \A i, j \in DOMAIN written : written[i] = written[j] => i = j

\* no more commands than auth, status, show calls and sofia status, two for
\* each row and one for each profile
CommandBound == Len(written) <= 4 + 2 * Len(rows) + Len(profiles)

\* C23: when the peer answers every read with a frame or with the end of
\* the stream, every scrape ends, by returning or by raising, and leaves no
\* connection open; all along no command is written twice and the commands
\* written number at most 4 + 2 * rows + profiles
C23_Terminates ==
    /\ <>(pc = "done")
    /\ [](pc = "done" => /\ conn # "open"
                         /\ (conn = "closed") <=> (closes = 1)
                         /\ conn = "none" => error = "OSError")
    /\ [](NoCommandTwice /\ CommandBound)

\* a scrape of two rows and two profiles that returned, its ten commands
\* written and its connection closed
C23_Witness ==
    /\ pc = "done" /\ error = "none" /\ result # NoResult
    /\ Len(rows) = 2 /\ Len(profiles) = 2
    /\ Len(written) = 10
    /\ Len(written) = 4 + 2 * Len(rows) + Len(profiles)
    /\ conn = "closed" /\ closes = 1


----------------------------------------------------------------------------
(* Properties of two scrapes at once (PairSpec) *)

\* a step changes the locals of one call only: the parked call is left as
\* it is, or the two calls change places
NonInterference ==
    \/ parked' = parked
    \/ parked' = Locals /\ Locals' = parked

\* the running call's connection and observations are its own: nobody else
\* closed its connection, its commands and answers are counted on that
\* connection alone, and what it returns was built from its own answers
OwnScrape ==
    /\ closes <= 1 /\ parked.closes <= 1
    /\ pc # "done" => conn \in {"none", "open"} /\ closes = 0
    /\ parked.pc # "done" => parked.conn \in {"none", "open"}
    /\ Len(written) - drained \in {0, 1}
    /\ framesRead - Len(written) \in {0, 1}
    /\ Len(dumps) <= Len(rows)
    /\ [k \in DOMAIN channel_info_metric |-> channel_info_metric[k].labels[1]]
         = Emitted(Len(dumps))
    /\ \A key \in DOMAIN channel_metrics :
         Len(channel_metrics[key]) <= Len(dumps)
    /\ \A f \in DOMAIN fields : Len(fields[f]) <= Len(profiles)
    /\ (pc = "done" /\ error = "none") =>
         /\ result = Chain(process, channel_metrics, channel_info_metric,
                           gauges, fields)
         /\ \A f \in DOMAIN fields :
              [k \in DOMAIN fields[f] |-> fields[f][k].labels[1]] = profiles

\* C15: of two scrapes interleaved in any way, each holds its own connection
\* and counts only its own commands and answers on it, no step of one
\* changes anything of the other, a failure of one leaves the other's
\* connection open, and what a scrape returns is built from the answers it
\* read itself.
C15_ScrapesIndependent == []OwnScrape /\ [][NonInterference]_vars

\* one scrape returned its observations of one channel and one profile, the
\* other lost its connection after it had gathered a channel's samples
C15_Witness ==
    /\ pc = "done"
    /\ error = "none"
    /\ Len(channel_info_metric) = 1
    /\ Len(profiles) = 1
    /\ result # NoResult
    /\ parked.pc = "done"
    /\ parked.error \in ConnectionLost
    /\ Len(parked.channel_info_metric) = 1
    /\ parked.conn = "closed"


====
